---------------------------- MODULE Spec2Model ----------------------------
(***************************************************************************)
(* Model of pymerger's DependencySorter (src/pymerger/sorter.py).          *)
(*                                                                         *)
(* A Python str is a sequence of one-character strings, so that            *)
(* str.replace, str.rstrip, str.split and str.join are computed character  *)
(* by character.  A dict is the sequence of its items in insertion order.  *)
(* An optional value is a sequence of length 0 (absent) or 1 (present).    *)
(* Iterating a Python set of str takes its elements in an order that       *)
(* depends on the interpreter's hash seed: every order is possible.        *)
(***************************************************************************)
EXTENDS Naturals, Sequences, FiniteSets

VARIABLES
    files,           \* self.files: the input file paths, in input order
    base_dir,        \* self.base_dir
    source,          \* the file system: path -> what ast.parse yields
    module_to_file,  \* self.module_to_file, items in insertion order
    dep_graph,       \* self.dep_graph: module -> set of modules
    pc,              \* "new", "ready", "build", "sort", "done", "crashed"
    i,               \* position of _build_dependency_graph's loop in files
    k,               \* position of _topological_sort's outer loop in the keys
    visited,         \* _topological_sort: visited
    temp_mark,       \* _topological_sort: temp_mark
    sorted_modules,  \* _topological_sort: sorted_modules
    stack,           \* the active calls of visit, innermost last
    result,          \* what get_sorted_files returned
    error,           \* <<m>> when the sort raised ValueError naming m
    prev             \* <<r>>: what the previous get_sorted_files returned

vars == <<files, base_dir, source, module_to_file, dep_graph, pc, i, k,
          visited, temp_mark, sorted_modules, stack, result, error, prev>>

(***************************************************************************)
(* Bounds of the model.                                                    *)
(***************************************************************************)
MaxFiles == 4
MaxLevel == 4

Range(s) == {s[n] : n \in 1..Len(s)}

(***************************************************************************)
(* Python str operations.                                                  *)
(***************************************************************************)
Replace(s, old, new) ==
    [n \in 1..Len(s) |-> IF s[n] = old THEN new ELSE s[n]]

RECURSIVE RStrip(_, _)
RStrip(s, chars) ==
    IF s = <<>> THEN s
    ELSE IF s[Len(s)] \in chars THEN RStrip(SubSeq(s, 1, Len(s) - 1), chars)
    ELSE s

RECURSIVE Split(_, _)
Split(s, sep) ==
    IF \A n \in 1..Len(s) : s[n] # sep THEN <<s>>
    ELSE LET j == CHOOSE n \in 1..Len(s) :
                      s[n] = sep /\ \A m \in 1..(n - 1) : s[m] # sep
         IN  <<SubSeq(s, 1, j - 1)>> \o Split(SubSeq(s, j + 1, Len(s)), sep)

RECURSIVE Join(_, _)
Join(parts, sep) ==
    IF parts = <<>> THEN <<>>
    ELSE IF Len(parts) = 1 THEN parts[1]
    ELSE parts[1] \o <<sep>> \o Join(Tail(parts), sep)

\* os.path.relpath(path, start) for normalised relative POSIX paths
RECURSIVE CommonLen(_, _)
CommonLen(a, b) ==
    IF a = <<>> \/ b = <<>> THEN 0
    ELSE IF a[1] = b[1] THEN 1 + CommonLen(Tail(a), Tail(b))
    ELSE 0

RelPath(path, start) ==
    LET start_list == Split(start, "/")
        path_list  == Split(path, "/")
        c          == CommonLen(start_list, path_list)
        rel        == [n \in 1..(Len(start_list) - c) |-> <<".", ".">>]
                      \o SubSeq(path_list, c + 1, Len(path_list))
    IN  IF rel = <<>> THEN <<".">> ELSE Join(rel, "/")

(***************************************************************************)
(* dict operations, on the sequence of items [key, val].                   *)
(***************************************************************************)
Keys(d) == [n \in 1..Len(d) |-> d[n].key]

Contains(d, key) == \E n \in 1..Len(d) : d[n].key = key

Get(d, key) == d[CHOOSE n \in 1..Len(d) : d[n].key = key].val

\* d[key] = val: a present key keeps its place, a new key goes last
DictSet(d, key, val) ==
    IF Contains(d, key)
    THEN [n \in 1..Len(d) |-> IF d[n].key = key
                              THEN [key |-> key, val |-> val] ELSE d[n]]
    ELSE Append(d, [key |-> key, val |-> val])

(***************************************************************************)
(* _build_module_mapping                                                   *)
(***************************************************************************)
ModuleName(filepath, base) ==
    LET rel_path == IF base # <<>> THEN RelPath(filepath, base) ELSE filepath
    IN  RStrip(Replace(rel_path, "/", "."), {".", "p", "y"})

RECURSIVE BuildModuleMapping(_, _, _)
BuildModuleMapping(fs, base, d) ==
    IF fs = <<>> THEN d
    ELSE BuildModuleMapping(Tail(fs), base,
                            DictSet(d, ModuleName(fs[1], base), fs[1]))

\* next(k for k, v in self.module_to_file.items() if v == filepath):
\* <<k>> for the first such key, <<>> when next() raises StopIteration
ModuleOfFile(d, filepath) ==
    IF \E n \in 1..Len(d) : d[n].val = filepath
    THEN <<d[CHOOSE n \in 1..Len(d) :
                 d[n].val = filepath
                 /\ \A m \in 1..(n - 1) : d[m].val # filepath].key>>
    ELSE <<>>

(***************************************************************************)
(* _get_imports_from_file.  An ast node is                                 *)
(*   [kind |-> "Import", name |-> str, level |-> 0]      import name       *)
(*   [kind |-> "ImportFrom", name |-> str, level |-> n]  from ..name import*)
(* where the name <<>> of an ImportFrom stands for node.module = None.     *)
(***************************************************************************)
\* mutant: one more trailing segment of the requester is dropped
RelativeCandidate_ExtraLevel(module_name, module, level) ==
    LET parts == Split(module_name, ".")
    IN  IF level < Len(parts)
        THEN LET base == Join(SubSeq(parts, 1, Len(parts) - level - 1), ".")
             IN  <<IF base # <<>> THEN base \o <<".">> \o module ELSE module>>
        ELSE <<>>

\* the candidate of a relative import, <<>> when level > len(parts)
RelativeCandidate(module_name, module, level) ==
    LET parts == Split(module_name, ".")
    IN  IF level <= Len(parts)
        THEN LET base == IF level > 0
                         THEN Join(SubSeq(parts, 1, Len(parts) - level), ".")
                         ELSE <<>>
             IN  <<IF base # <<>> THEN base \o <<".">> \o module ELSE module>>
        ELSE <<>>

\* the modules one ast node adds to dependencies
NodeDependencies(d, module_name, node) ==
    IF node.kind = "Import"
    THEN IF Contains(d, node.name) THEN {node.name} ELSE {}
    ELSE IF node.name # <<>> /\ Contains(d, node.name) THEN {node.name}
    ELSE IF node.name # <<>> /\ node.level > 0
    THEN {c \in Range(RelativeCandidate(module_name, node.name, node.level)) :
              Contains(d, c)}
    ELSE {}

\* src is [ok |-> BOOLEAN, nodes |-> set of ast nodes]; ok = FALSE when
\* open/read/ast.parse raises, which is printed and leaves the set empty
GetImportsFromFile(d, module_name, src) ==
    IF src.ok
    THEN UNION {NodeDependencies(d, module_name, node) : node \in src.nodes}
    ELSE {}

(***************************************************************************)
(* The inputs: file paths, and what each file holds.                       *)
(***************************************************************************)
Py(stem) == stem \o <<".", "p", "y">>

Imp(name) == [kind |-> "Import", name |-> name, level |-> 0]
From(name, level) == [kind |-> "ImportFrom", name |-> name, level |-> level]
Src(nodes) == [ok |-> TRUE, nodes |-> nodes]
ParseFailure == [ok |-> FALSE, nodes |-> {}]

\* flat modules a, b, c, d importing one another
Flat == {Py(<<"a">>), Py(<<"b">>), Py(<<"c">>)}
FlatSources == {Src(S) : S \in SUBSET {Imp(<<"a">>), Imp(<<"b">>), Imp(<<"c">>)}}
               \cup {ParseFailure}
FlatScenario ==
    [pool |-> Flat, bases |-> {<<>>}, opts |-> [f \in Flat |-> FlatSources]]

\* the diamond: a imports b and c, b and c import d
Diamond == Flat \cup {Py(<<"d">>)}
DiamondScenario ==
    [pool  |-> Diamond,
     bases |-> {<<>>},
     opts  |-> [f \in Diamond |->
                  IF f = Py(<<"a">>) THEN {Src({Imp(<<"b">>), Imp(<<"c">>)})}
                  ELSE IF f = Py(<<"d">>) THEN {Src({})}
                  ELSE {Src({Imp(<<"d">>)})}]]

\* a package: pkg/sub/mod.py, pkg/sub/x.py, pkg/x.py and x.py, with
\* "from <dots>x import ..." at every level in the two requesters
PkgSubMod == Py(<<"p", "k", "g", "/", "s", "u", "b", "/", "m", "o", "d">>)
PkgSubX   == Py(<<"p", "k", "g", "/", "s", "u", "b", "/", "x">>)
PkgX      == Py(<<"p", "k", "g", "/", "x">>)
TopX      == Py(<<"x">>)
Package   == {PkgSubMod, PkgSubX, PkgX, TopX}
RelativeSources ==
    {Src({})} \cup {Src({From(<<"x">>, l)}) : l \in 0..MaxLevel}
              \cup {Src({From(<<>>, 1)})}
PackageScenario ==
    [pool  |-> Package,
     bases |-> {<<>>},
     opts  |-> [f \in Package |->
                  IF f \in {PkgSubMod, TopX} THEN RelativeSources
                  ELSE {Src({})}]]

\* paths whose names end in the characters of ".py", or differ only by
\* the separator, with and without a base directory
Odd == {Py(<<"a", "p">>), Py(<<"a">>), Py(<<"y">>),
        Py(<<"a", "/", "b">>), Py(<<"a", ".", "b">>)}
OddScenario ==
    [pool  |-> Odd,
     bases |-> {<<>>, <<"a">>},
     opts  |-> [f \in Odd |->
                  {Src({}), Src({Imp(<<"a">>), Imp(<<"o", "s">>)})}]]

Scenarios == {FlatScenario, DiamondScenario, PackageScenario, OddScenario}

\* the sequences of distinct elements of S of length at most n
RECURSIVE InjectiveSeqs(_, _)
InjectiveSeqs(S, n) ==
    IF n = 0 THEN {<<>>}
    ELSE LET shorter == InjectiveSeqs(S, n - 1)
         IN  shorter \cup
             UNION {{Append(s, x) : x \in S \ Range(s)} :
                        s \in {t \in shorter : Len(t) = n - 1}}

\* the functions on S that give each f one of opts[f]
RECURSIVE Assignments(_, _)
Assignments(S, opts) ==
    IF S = {} THEN {[f \in {} |-> ParseFailure]}
    ELSE LET f == CHOOSE x \in S : TRUE
         IN  {[x \in S |-> IF x = f THEN o ELSE g[x]] :
                  g \in Assignments(S \ {f}, opts), o \in opts[f]}

EmptyGraph == [m \in {} |-> {}]

Init ==
    /\ \E sc \in Scenarios :
          /\ files \in InjectiveSeqs(sc.pool, MaxFiles)
          /\ base_dir \in sc.bases
          /\ source \in Assignments(Range(files), sc.opts)
    /\ module_to_file = <<>>
    /\ dep_graph = EmptyGraph
    /\ pc = "new"
    /\ i = 1
    /\ k = 1
    /\ visited = {}
    /\ temp_mark = {}
    /\ sorted_modules = <<>>
    /\ stack = <<>>
    /\ result = <<>>
    /\ error = <<>>
    /\ prev = <<>>

(***************************************************************************)
(* __init__                                                                *)
(***************************************************************************)
Construct ==
    /\ pc = "new"
    /\ module_to_file' = BuildModuleMapping(files, base_dir, <<>>)
    /\ pc' = "ready"
    /\ UNCHANGED <<files, base_dir, source, dep_graph, i, k, visited,
                   temp_mark, sorted_modules, stack, result, error, prev>>

(***************************************************************************)
(* get_sorted_files is called: _build_dependency_graph starts              *)
(***************************************************************************)
GetSortedFiles ==
    /\ pc = "ready"
    /\ pc' = "build"
    /\ i' = 1
    /\ UNCHANGED <<files, base_dir, source, module_to_file, dep_graph, k,
                   visited, temp_mark, sorted_modules, stack, result, error,
                   prev>>

(***************************************************************************)
(* _build_dependency_graph: one file of the loop                           *)
(***************************************************************************)
BuildFile ==
    /\ pc = "build"
    /\ i <= Len(files)
    /\ ModuleOfFile(module_to_file, files[i]) # <<>>
    /\ LET module_name  == ModuleOfFile(module_to_file, files[i])[1]
           dependencies == GetImportsFromFile(module_to_file, module_name,
                                              source[files[i]])
       IN  dep_graph' = [m \in DOMAIN dep_graph \cup {module_name} |->
                           IF m = module_name THEN dependencies
                           ELSE dep_graph[m]]
    /\ i' = i + 1
    /\ UNCHANGED <<files, base_dir, source, module_to_file, pc, k, visited,
                   temp_mark, sorted_modules, stack, result, error, prev>>

\* next() finds no key for the file: StopIteration leaves get_sorted_files
StopIteration ==
    /\ pc = "build"
    /\ i <= Len(files)
    /\ ModuleOfFile(module_to_file, files[i]) = <<>>
    /\ pc' = "crashed"
    /\ UNCHANGED <<files, base_dir, source, module_to_file, dep_graph, i, k,
                   visited, temp_mark, sorted_modules, stack, result, error,
                   prev>>

(***************************************************************************)
(* _topological_sort                                                       *)
(***************************************************************************)
BeginSort ==
    /\ pc = "build"
    /\ i > Len(files)
    /\ pc' = "sort"
    /\ visited' = {}
    /\ temp_mark' = {}
    /\ sorted_modules' = <<>>
    /\ stack' = <<>>
    /\ k' = 1
    /\ UNCHANGED <<files, base_dir, source, module_to_file, dep_graph, i,
                   result, error, prev>>

\* mutant: the edges are followed backwards, to the modules that import node
PendingDeps_Dependents(node) ==
    {m \in DOMAIN dep_graph : node \in dep_graph[m]}

\* self.dep_graph[node] of line 75 (a defaultdict)
PendingDeps(node) ==
    IF node \in DOMAIN dep_graph THEN dep_graph[node] ELSE {}

\* mutant: the error is reported, but what was sorted so far is returned
Visit_PartialOnCycle(node, callers) ==
    IF node \in temp_mark
    THEN /\ error' = <<node>>
         /\ result' = [n \in 1..Len(sorted_modules) |->
                          Get(module_to_file, sorted_modules[n])]
         /\ pc' = "done"
         /\ stack' = <<>>
         /\ UNCHANGED <<temp_mark, visited, sorted_modules>>
    ELSE IF node \notin visited
    THEN /\ temp_mark' = temp_mark \cup {node}
         /\ stack' = Append(callers, [node |-> node, todo |-> PendingDeps(node)])
         /\ UNCHANGED <<error, result, pc, visited, sorted_modules>>
    ELSE /\ stack' = callers
         /\ UNCHANGED <<error, result, pc, temp_mark, visited, sorted_modules>>

\* mutant: one mark for both states, so a DONE module met again is an error
Visit_RaiseOnVisited(node, callers) ==
    IF node \in temp_mark \cup visited
    THEN /\ error' = <<node>>
         /\ result' = <<>>
         /\ pc' = "done"
         /\ stack' = <<>>
         /\ UNCHANGED <<temp_mark, visited, sorted_modules>>
    ELSE /\ temp_mark' = temp_mark \cup {node}
         /\ stack' = Append(callers, [node |-> node, todo |-> PendingDeps(node)])
         /\ UNCHANGED <<error, result, pc, visited, sorted_modules>>

\* visit(node), called with callers as the active calls: it raises, which
\* get_sorted_files catches to return [], or it marks node and starts on
\* its dependencies, or it returns at once
Visit(node, callers) ==
    IF node \in temp_mark
    THEN /\ error' = <<node>>
         /\ result' = <<>>
         /\ pc' = "done"
         /\ stack' = <<>>
         /\ UNCHANGED <<temp_mark, visited, sorted_modules>>
    ELSE IF node \notin visited
    THEN /\ temp_mark' = temp_mark \cup {node}
         /\ stack' = Append(callers, [node |-> node, todo |-> PendingDeps(node)])
         /\ UNCHANGED <<error, result, pc, visited, sorted_modules>>
    ELSE /\ stack' = callers
         /\ UNCHANGED <<error, result, pc, temp_mark, visited, sorted_modules>>

\* for module in self.module_to_file.keys(): if module not in visited: visit
StartModule ==
    /\ pc = "sort"
    /\ stack = <<>>
    /\ k <= Len(module_to_file)
    /\ k' = k + 1
    /\ IF Keys(module_to_file)[k] \notin visited
       THEN Visit(Keys(module_to_file)[k], <<>>)
       ELSE UNCHANGED <<error, result, pc, temp_mark, visited, sorted_modules,
                        stack>>
    /\ UNCHANGED <<files, base_dir, source, module_to_file, dep_graph, i, prev>>

\* for dep in self.dep_graph[node]: if dep in self.module_to_file: visit(dep)
VisitDep ==
    /\ pc = "sort"
    /\ stack # <<>>
    /\ LET top == stack[Len(stack)]
       IN  \E dep \in top.todo :
              LET callers == [stack EXCEPT ![Len(stack)].todo = top.todo \ {dep}]
              IN  IF Contains(module_to_file, dep)
                  THEN Visit(dep, callers)
                  ELSE /\ stack' = callers
                       /\ UNCHANGED <<error, result, pc, temp_mark, visited,
                                      sorted_modules>>
    /\ UNCHANGED <<files, base_dir, source, module_to_file, dep_graph, i, k,
                   prev>>

\* mutant: visited.add(node) is missing
FinishVisit_NotVisited ==
    /\ pc = "sort"
    /\ stack # <<>>
    /\ stack[Len(stack)].todo = {}
    /\ temp_mark' = temp_mark \ {stack[Len(stack)].node}
    /\ sorted_modules' = Append(sorted_modules, stack[Len(stack)].node)
    /\ stack' = SubSeq(stack, 1, Len(stack) - 1)
    /\ UNCHANGED <<files, base_dir, source, module_to_file, dep_graph, pc, i, k,
                   visited, result, error, prev>>

\* mutant: temp_mark.remove(node) is missing
FinishVisit_KeepMark ==
    /\ pc = "sort"
    /\ stack # <<>>
    /\ stack[Len(stack)].todo = {}
    /\ visited' = visited \cup {stack[Len(stack)].node}
    /\ sorted_modules' = Append(sorted_modules, stack[Len(stack)].node)
    /\ stack' = SubSeq(stack, 1, Len(stack) - 1)
    /\ UNCHANGED <<files, base_dir, source, module_to_file, dep_graph, pc, i, k,
                   temp_mark, result, error, prev>>

\* lines 78-80: the loop over the dependencies is over
FinishVisit ==
    /\ pc = "sort"
    /\ stack # <<>>
    /\ stack[Len(stack)].todo = {}
    /\ LET node == stack[Len(stack)].node
       IN  /\ temp_mark' = temp_mark \ {node}
           /\ visited' = visited \cup {node}
           /\ sorted_modules' = Append(sorted_modules, node)
    /\ stack' = SubSeq(stack, 1, Len(stack) - 1)
    /\ UNCHANGED <<files, base_dir, source, module_to_file, dep_graph, pc, i, k,
                   result, error, prev>>

\* return sorted_modules, and line 93 of get_sorted_files
ReturnSorted ==
    /\ pc = "sort"
    /\ stack = <<>>
    /\ k > Len(module_to_file)
    /\ result' = [n \in 1..Len(sorted_modules) |->
                     Get(module_to_file, sorted_modules[n])]
    /\ pc' = "done"
    /\ UNCHANGED <<files, base_dir, source, module_to_file, dep_graph, i, k,
                   visited, temp_mark, sorted_modules, stack, error, prev>>

\* the program is run once more on the same files, in a new interpreter
\* (so with another hash seed); prev remembers what the run before returned
RunAgain ==
    /\ pc = "done"
    /\ prev' = <<result>>
    /\ module_to_file' = <<>>
    /\ dep_graph' = EmptyGraph
    /\ pc' = "new"
    /\ i' = 1
    /\ k' = 1
    /\ visited' = {}
    /\ temp_mark' = {}
    /\ sorted_modules' = <<>>
    /\ stack' = <<>>
    /\ result' = <<>>
    /\ error' = <<>>
    /\ UNCHANGED <<files, base_dir, source>>

Next ==
    \/ Construct
    \/ GetSortedFiles
    \/ BuildFile
    \/ StopIteration
    \/ BeginSort
    \/ StartModule
    \/ VisitDep
    \/ FinishVisit
    \/ ReturnSorted
    \/ RunAgain

Spec == Init /\ [][Next]_vars

(***************************************************************************)
(* Vocabulary of the properties.                                           *)
(***************************************************************************)
Registry == Range(Keys(module_to_file))

FileOf(m) == Get(module_to_file, m)

Edges(m) == IF m \in DOMAIN dep_graph THEN dep_graph[m] ELSE {}

RECURSIVE ReachableFrom(_, _)
ReachableFrom(S, n) ==
    IF n = 0 THEN S
    ELSE ReachableFrom(S \cup UNION {Edges(m) : m \in S}, n - 1)

\* m lies on a directed cycle of dep_graph
OnCycle(m) ==
    m \in ReachableFrom(Edges(m), Cardinality(DOMAIN dep_graph))

HasCycle == \E m \in DOMAIN dep_graph : OnCycle(m)

Positions(f) == {q \in 1..Len(result) : result[q] = f}

Succeeded == pc = "done" /\ error = <<>>

OnPath == {stack[n].node : n \in 1..Len(stack)}

(***************************************************************************)
(* C1  Topological validity: when get_sorted_files succeeds, the file of   *)
(* every registry module M is in the output, and the file of each          *)
(* dependency D of M stands strictly before every place of M's file.       *)
(***************************************************************************)
C1_TopologicalValidity ==
    Succeeded =>
        \A M \in Registry :
            /\ Positions(FileOf(M)) # {}
            /\ \A D \in Edges(M) :
                  \A q \in Positions(FileOf(M)) :
                      \E p \in Positions(FileOf(D)) : p < q

\* a successful sort that had to put a later input file first: the first
\* input file depends on a module that depends on another
C1_Witness ==
    /\ Succeeded
    /\ Len(files) >= 3
    /\ \E M \in Registry :
          /\ FileOf(M) = files[1]
          /\ \E D \in Edges(M) : Edges(D) # {}
    /\ result[1] # files[1]

(***************************************************************************)
(* C2  Completeness: on an acyclic graph get_sorted_files succeeds and its *)
(* output is a permutation of the registry's files: as long as the         *)
(* registry, each registry file once, nothing else; and a sort under way   *)
(* always has a next step, so it does come to its end.                     *)
(***************************************************************************)
C2_Completeness ==
    /\ (pc = "done" /\ ~HasCycle) =>
          /\ error = <<>>
          /\ Len(result) = Len(module_to_file)
          /\ \A M \in Registry : Cardinality(Positions(FileOf(M))) = 1
          /\ \A q \in 1..Len(result) :
                \E M \in Registry : result[q] = FileOf(M)
    /\ pc = "sort" =>
          ENABLED (StartModule \/ VisitDep \/ FinishVisit \/ ReturnSorted)

\* an acyclic graph in which two modules share a dependency, sorted
C2_Witness ==
    /\ pc = "done"
    /\ ~HasCycle
    /\ Len(result) >= 3
    /\ \E M1, M2 \in Registry : M1 # M2 /\ Edges(M1) \cap Edges(M2) # {}

(***************************************************************************)
(* C3  A cycle is fatal and atomic: when the dependency graph has a        *)
(* directed cycle (a self-dependency included) the sort ends with the      *)
(* circular-dependency error and get_sorted_files returns the empty list;  *)
(* an error never comes with a partial ordering.                           *)
(***************************************************************************)
C3_CycleIsFatal ==
    /\ (pc = "done" /\ HasCycle) => (error # <<>> /\ result = <<>>)
    /\ error # <<>> => result = <<>>

\* the sort failed after it had already put modules in sorted_modules
C3_Witness ==
    /\ pc = "done"
    /\ HasCycle
    /\ error # <<>>
    /\ sorted_modules # <<>>
    /\ result = <<>>

(***************************************************************************)
(* C4  Deterministic tie-breaking in the diamond: the output has d before  *)
(* b and c and both before a, and for a fixed input file order the output  *)
(* is the same on every run, whatever the order in which a's dependency    *)
(* set is iterated.                                                        *)
(***************************************************************************)
IsDiamond == Range(files) = Diamond

Index(f) == CHOOSE q \in 1..Len(result) : result[q] = f

C4_DiamondDeterministic ==
    (IsDiamond /\ pc = "done") =>
        /\ Len(result) = 4
        /\ Index(Py(<<"d">>)) < Index(Py(<<"b">>))
        /\ Index(Py(<<"d">>)) < Index(Py(<<"c">>))
        /\ Index(Py(<<"b">>)) < Index(Py(<<"a">>))
        /\ Index(Py(<<"c">>)) < Index(Py(<<"a">>))
        /\ prev # <<>> => result = prev[1]

(***************************************************************************)
(* C5  Relative references of pkg.sub.mod.  As stated: "from .x" has the   *)
(* candidate pkg.x and "from ..x" the candidate x, and the candidate is in *)
(* the dependency set exactly when it is in the registry.                  *)
(***************************************************************************)
StrPkgSubMod == <<"p", "k", "g", ".", "s", "u", "b", ".", "m", "o", "d">>
StrPkgSubX   == <<"p", "k", "g", ".", "s", "u", "b", ".", "x">>
StrPkgX      == <<"p", "k", "g", ".", "x">>
StrX         == <<"x">>

GraphBuilt == pc \in {"sort", "done"}

\* pkg/sub/mod.py is an input and holds exactly "from <level dots>x import"
ModImportsX(level) ==
    /\ GraphBuilt
    /\ PkgSubMod \in Range(files)
    /\ source[PkgSubMod] = Src({From(StrX, level)})
    /\ StrPkgSubMod \in DOMAIN dep_graph

C5_AsStated ==
    /\ ModImportsX(1) =>
          (StrPkgX \in dep_graph[StrPkgSubMod] <=> StrPkgX \in Registry)
    /\ ModImportsX(2) =>
          (StrX \in dep_graph[StrPkgSubMod] <=> StrX \in Registry)

(***************************************************************************)
(* C5, amended: "from .x" has the candidate pkg.sub.x and "from ..x" the   *)
(* candidate pkg.x; the dependency set holds nothing but the candidate and *)
(* the name x, and holds the candidate exactly when the candidate is in    *)
(* the registry and the name x is not (when x is, x is what is added).     *)
(***************************************************************************)
C5_RelativeResolution ==
    /\ ModImportsX(1) =>
          /\ dep_graph[StrPkgSubMod] \subseteq {StrPkgSubX, StrX}
          /\ StrPkgSubX \in dep_graph[StrPkgSubMod]
                <=> (StrPkgSubX \in Registry /\ StrX \notin Registry)
          /\ StrX \in dep_graph[StrPkgSubMod] <=> StrX \in Registry
    /\ ModImportsX(2) =>
          /\ dep_graph[StrPkgSubMod] \subseteq {StrPkgX, StrX}
          /\ StrPkgX \in dep_graph[StrPkgSubMod]
                <=> (StrPkgX \in Registry /\ StrX \notin Registry)
          /\ StrX \in dep_graph[StrPkgSubMod] <=> StrX \in Registry

\* "from .x" in pkg/sub/mod.py picked pkg.sub.x although pkg.x is an input
C5_Witness ==
    /\ ModImportsX(1)
    /\ StrPkgX \in Registry
    /\ dep_graph[StrPkgSubMod] = {StrPkgSubX}

(***************************************************************************)
(* C6  A relative reference (level >= 1) adds no dependency other than the *)
(* candidate computed from the requester's identity, and none at all when  *)
(* its level exceeds the number of segments of that identity, also when    *)
(* its name is itself in the registry.                                     *)
(***************************************************************************)
C6_RelativeOnlyCandidate ==
    GraphBuilt =>
        \A n \in 1..Len(files) : \A l \in 1..MaxLevel :
            (/\ source[files[n]] = Src({From(StrX, l)})
             /\ ModuleOfFile(module_to_file, files[n]) # <<>>)
            => LET m     == ModuleOfFile(module_to_file, files[n])[1]
                   parts == Split(m, ".")
                   cand  == IF Len(parts) - l > 0
                            THEN Join(SubSeq(parts, 1, Len(parts) - l), ".")
                                 \o <<".">> \o StrX
                            ELSE StrX
               IN  IF l > Len(parts) THEN Edges(m) = {}
                   ELSE Edges(m) \subseteq {cand}

\* the identity sections 3 and 4.1 of the specification describe
RemoveSuffixPy(s) ==
    IF Len(s) >= 3 /\ SubSeq(s, Len(s) - 2, Len(s)) = <<".", "p", "y">>
    THEN SubSeq(s, 1, Len(s) - 3)
    ELSE s

ExpectedIdentity(filepath, base) ==
    RemoveSuffixPy(Replace(IF base # <<>> THEN RelPath(filepath, base)
                           ELSE filepath, "/", "."))

(***************************************************************************)
(* C7  Duplicate identities are accepted: when two distinct input files    *)
(* derive the same identity nothing is raised, the graph is built for      *)
(* every registry member and the run returns.                              *)
(***************************************************************************)
HasDuplicateIdentity ==
    \E m, n \in 1..Len(files) :
        /\ files[m] # files[n]
        /\ ExpectedIdentity(files[m], base_dir)
              = ExpectedIdentity(files[n], base_dir)

C7_DuplicatesAccepted ==
    HasDuplicateIdentity =>
        /\ pc # "crashed"
        /\ GraphBuilt => Registry \subseteq DOMAIN dep_graph

(***************************************************************************)
(* C8  Identity derivation: the identity of a file is its path relative to *)
(* the base directory with "/" replaced by "." and only a trailing ".py"   *)
(* removed, so that distinct relative paths ending in ".py" get distinct   *)
(* identities.                                                             *)
(***************************************************************************)
C8_IdentityDerivation ==
    pc # "new" =>
        \A n \in 1..Len(files) :
            /\ Contains(module_to_file, ExpectedIdentity(files[n], base_dir))
            /\ \A m \in 1..Len(files) :
                  (/\ files[m] # files[n]
                   /\ SubSeq(files[m], Len(files[m]) - 2, Len(files[m]))
                          = <<".", "p", "y">>
                   /\ SubSeq(files[n], Len(files[n]) - 2, Len(files[n]))
                          = <<".", "p", "y">>)
                  => ModuleName(files[m], base_dir)
                         # ModuleName(files[n], base_dir)

(***************************************************************************)
(* C9  Visitation state machine.  During one _topological_sort: temp_mark  *)
(* and visited are disjoint; temp_mark is exactly the modules on the       *)
(* recursion path; sorted_modules lists visited, each once; a module goes  *)
(* UNVISITED -> IN_PROGRESS -> DONE only and never leaves DONE; it is      *)
(* appended exactly when it becomes DONE, all its dependencies being DONE. *)
(***************************************************************************)
C9_Marks ==
    pc = "sort" =>
        /\ temp_mark \cap visited = {}
        /\ temp_mark = OnPath
        /\ Cardinality(OnPath) = Len(stack)
        /\ Range(sorted_modules) = visited
        /\ Cardinality(visited) = Len(sorted_modules)
        /\ \A m \in visited : Edges(m) \subseteq visited

C9_Moves ==
    (pc = "sort" /\ pc' \in {"sort", "done"}) =>
        /\ visited \subseteq visited'
        /\ visited \cap temp_mark' = {}
        /\ \A m \in temp_mark' \ temp_mark : m \notin visited'
        /\ \A m \in visited' \ visited :
              /\ m \in temp_mark
              /\ sorted_modules' = Append(sorted_modules, m)
              /\ Edges(m) \subseteq visited
        /\ sorted_modules' # sorted_modules =>
              \E m \in visited' \ visited :
                  sorted_modules' = Append(sorted_modules, m)

C9_StateMachine == [](C9_Marks) /\ [][C9_Moves]_vars

\* two modules on the recursion path while another is already DONE
C9_Witness ==
    /\ pc = "sort"
    /\ Len(stack) >= 2
    /\ visited # {}
    /\ \E m \in visited : Edges(m) # {}

(***************************************************************************)
(* C10  The module a circular-dependency error names is on a directed      *)
(* cycle and was IN_PROGRESS when it was reached again, as a dependency of *)
(* the innermost module of the recursion path; no earlier dependency of a  *)
(* module on the path led to an IN_PROGRESS module other than the next one *)
(* of the path (the error is raised at the first back-edge); and no error  *)
(* is raised on an acyclic graph.                                          *)
(***************************************************************************)
C10_Named ==
    /\ error # <<>> =>
          /\ pc = "done"
          /\ OnCycle(error[1])
          /\ error[1] \in temp_mark
    /\ pc = "sort" =>
          \A n \in 1..Len(stack) :
              \A d \in Edges(stack[n].node) \ stack[n].todo :
                  \/ d \in visited
                  \/ n < Len(stack) /\ stack[n + 1].node = d

C10_Raise ==
    (error = <<>> /\ error' # <<>>) =>
        /\ pc = "sort"
        /\ stack # <<>>
        /\ error'[1] \in temp_mark
        /\ error'[1] \in stack[Len(stack)].todo

C10_ErrorNamesCycle == [](C10_Named) /\ [][C10_Raise]_vars

\* an error naming a module that is not where the walk started, found
\* after another module was DONE
C10_Witness ==
    /\ error # <<>>
    /\ sorted_modules # <<>>
    /\ error[1] # Keys(module_to_file)[1]
    /\ Cardinality(temp_mark) >= 2

=============================================================================
